---- MODULE Spec2Model ----
(***************************************************************************)
(* Surfaceless EGL platform (platform_surfaceless.c): display             *)
(* initialization (hardware device probe, software fallback, config setup *)
(* and vtbl assignment) and pbuffer surfaces with their lazily allocated  *)
(* front image.                                                            *)
(*                                                                         *)
(* Two specifications share the variables:                                 *)
(*   Spec      dri2_initialize_surfaceless on a freshly created display   *)
(*   SpecSurf  surface create / get_buffers / destroy on an initialized   *)
(*             display                                                     *)
(*                                                                         *)
(* Functions that are called but not defined in the modelled file          *)
(* (loader_open_device, loader_get_user_preferred_fd,                      *)
(* loader_get_driver_for_fd, dri2_detect_swrast_kopper,                    *)
(* dri2_create_screen, dri_create_image, ...) are environment: each call   *)
(* draws its result from the set of results the caller distinguishes.      *)
(* calloc and strdup are taken to succeed.                                 *)
(***************************************************************************)
EXTENDS Integers, Sequences, FiniteSets, TLC

\* ------------------------------------------------------------------ bounds
MaxDevices == 2       \* longest _eglGlobal.DeviceList explored
MaxConfigs == 1       \* most configs the config enumeration adds
MaxSurfaces == 2      \* surfaces created in one run
MaxAllocCalls == 2    \* image allocator invocations per surface
MaxQueries == 2       \* drawable size queries in one run
MaxQueued == 2        \* blocks waiting on the main dispatch queue
MaxLookups == 3       \* my_dlsym calls in one run
MaxDepth == 2         \* my_dlsym frames nested on the thread's stack

\* --------------------------------------------------------------- constants
NULL == 0
NOFD == 0 - 1
SWDEV == 99           \* identity of the software device (_eglFindDevice(fd, true))

NodeTypes == {"PRIMARY", "RENDER"}
DriverNames == {"i915", "vgem", "virtio_gpu"}
NoName == "NULL"      \* a NULL char *

\* A device of _eglGlobal.DeviceList: whether it supports _EGL_DEVICE_DRM and
\* its drmDevice's available_nodes.  A device without DRM support has no nodes.
DeviceKinds ==
    {[drm |-> FALSE, nodes |-> {}]} \cup
    {[drm |-> TRUE, nodes |-> n] : n \in SUBSET NodeTypes}

DeviceLists == UNION {[1..n -> DeviceKinds] : n \in 0..MaxDevices}

\* Build configurations: HAVE_WAYLAND_PLATFORM, __APPLE__,
\* VK_USE_PLATFORM_METAL_EXT (only meaningful with __APPLE__).
Builds ==
    {[wayland |-> FALSE, apple |-> FALSE, metal |-> FALSE],
     [wayland |-> TRUE,  apple |-> FALSE, metal |-> FALSE],
     [wayland |-> FALSE, apple |-> TRUE,  metal |-> FALSE],
     [wayland |-> FALSE, apple |-> TRUE,  metal |-> TRUE]}

VARIABLES
    build,        \* compile-time configuration
    DeviceList,   \* _eglGlobal.DeviceList
    disp,         \* _EGLDisplay: Device, HasDeviceAttrib, Options
    dri2_dpy,     \* struct dri2_egl_display
    pc,           \* position inside dri2_initialize_surfaceless
    dev_list,     \* loop cursor of surfaceless_probe_device (Len+1 = NULL)
    driver_loaded,
    ret,          \* result of dri2_initialize_surfaceless
    sys,          \* kernel / driver resources: open fds, live screens, images
    hist,         \* call history of the initialization
    surf,         \* struct dri2_egl_surface per surface
    buffers,      \* out-parameter and result of the last get_buffers call
    last,         \* the last surface operation and what it did
    mq,           \* drawable size query: caller, get_size_ctx, main queue
    ip            \* libgl_interpose.c: its statics and the my_dlsym frames

vars == <<build, DeviceList, disp, dri2_dpy, pc, dev_list, driver_loaded, ret,
          sys, hist, surf, buffers, last, mq, ip>>

dispVars == <<build, DeviceList, disp, dri2_dpy, pc, dev_list, driver_loaded,
              ret, hist>>
surfVars == <<surf, buffers, last, mq, ip>>

\* ------------------------------------------------------------------ helpers
\* open(2)/socket style allocation: the lowest descriptor not in use.
FreshFd(open) ==
    CHOOSE f \in 3..(3 + Cardinality(open)) :
        f \notin open /\ \A g \in 3..(f - 1) : g \in open

\* close(fd): an open descriptor is released, anything else is EBADF.
Close(s, fd) ==
    IF fd \in s.open_fds
    THEN [s EXCEPT !.open_fds = @ \ {fd}]
    ELSE [s EXCEPT !.bad_close = TRUE]

NoBuffers == [image_mask |-> {}, front |-> NULL, back |-> NULL, ret |-> 1]
NoOp == [op |-> "none", s |-> 0, mask |-> {}, front_before |-> NULL,
         alloc_called |-> FALSE, alloc_ok |-> FALSE,
         outcome |-> "none", callee_error |-> "none", error |-> "none",
         result |-> "none", calls |-> <<>>,
         cap |-> "none", cap_result |-> 0]
NoSurface == [state |-> "none", front |-> NULL, dri_drawable |-> NULL,
              front_requested |-> FALSE,
              alloc_calls |-> 0, alloc_fails |-> 0, allocs |-> 0]
BufferRoles == {"BACK", "FRONT"}   \* __DRI_IMAGE_BUFFER_BACK / _FRONT bits

\* widths and heights: 0 is what get_drawable_info puts in ctx before the
\* query (lines 396-397); the layer's drawableSize is one of LayerSizes
NoSize == [w |-> 0, h |-> 0]
LayerSizes == {[w |-> 1, h |-> 2], [w |-> 2, h |-> 1], [w |-> 2, h |-> 2]}
\* no drawable size query in progress; out is the caller's *w, *h
NoQuery ==
    [pc |-> "idle", thread |-> "none", layer |-> NULL, size |-> NoSize,
     stored |-> NoSize, ctx |-> NoSize, out |-> NoSize, queue |-> <<>>,
     dispatched |-> FALSE, ran_on |-> "none", done |-> FALSE, calls |-> 0]

\* libgl_interpose.c lines 25-30: the statics as the loader leaves them, no
\* my_dlsym call in progress.  stack holds the my_dlsym frames, innermost
\* last; dlopen_calls and setenv_runs count the executions of line 78 and of
\* line 59; nested_in_init tells that my_dlsym was entered while an outer
\* frame was inside set_env_vars or dlopen; ret is the last returned lookup.
NoSymbol == [null |-> TRUE, chars |-> <<>>]
NoLookup ==
    [valid |-> FALSE, handle |-> NULL, symbol |-> NoSymbol, via |-> "none",
     value |-> NULL, resolver |-> NULL, asked |-> FALSE, proc |-> NULL,
     real_handle |-> NULL, real_symbol |-> NoSymbol, depth |-> 0]
NoInterpose ==
    [initialized |-> 0, env_vars_set |-> 0,
     egl_handle |-> NULL, mesa_eglGetProcAddress |-> NULL,
     lib_dir |-> "", egl_lib_path |-> "",
     env |-> [MESA_EGL_LIBRARY |-> "unset", MESA_VULKAN_LIBRARY |-> "unset"],
     stack |-> <<>>, lookups |-> 0, dlopen_calls |-> 0, setenv_runs |-> 0,
     nested_in_init |-> FALSE, ret |-> NoLookup]

\* dri2_display_create leaves a zeroed display with both fds at -1.
FreshDisplay ==
    [fd_render_gpu |-> NOFD, fd_display_gpu |-> NOFD,
     driver_name |-> NoName, device_name |-> NoName,
     kopper |-> FALSE, loader_extensions |-> "NULL",
     dri_screen_render_gpu |-> NULL, dri_screen_display_gpu |-> NULL,
     own_dri_screen |-> FALSE, vtbl |-> "NULL",
     configs |-> 0, config_done |-> FALSE]

FreshSys ==
    [open_fds |-> {}, bad_close |-> FALSE,
     live_screens |-> {}, screens_created |-> 0,
     live_images |-> {}, images_created |-> 0, images_freed |-> 0,
     live_drawables |-> {}, drawables_created |-> 0]

FreshHist ==
    [hw_probes |-> 0, sw_probes |-> 0, hw_result |-> "none",
     sw_result |-> "none", open_calls |-> 0,
     ext_assigns |-> 0, vtbl_assigns |-> 0,
     screen_attempt |-> NoName, resolved |-> NoName, rejected |-> 0,
     examined |-> {}, opened |-> {}, graphics |-> "none",
     sw_attempt |-> NoName, sw_ext |-> "NULL", pinned |-> NULL,
     bound |-> NULL, opened_nodes |-> {},
     made |-> {}, destroy_calls |-> <<>>]

\* ------------------------------------------------------------ initial state
\* A caller that pinned a device (EGL_DEVICE_EXT) set disp->Device to a device
\* of the list or to the software device; otherwise disp->Device is NULL.
Init ==
    /\ build \in Builds
    /\ DeviceList \in DeviceLists
    /\ \E pinned \in BOOLEAN, fs \in BOOLEAN, zink \in BOOLEAN :
         \E d \in IF pinned THEN (1..Len(DeviceList)) \cup {SWDEV} ELSE {NULL} :
            disp = [Device |-> d, HasDeviceAttrib |-> pinned,
                    ForceSoftware |-> fs, Zink |-> zink]
    /\ dri2_dpy = FreshDisplay
    /\ pc = "init_start"
    /\ dev_list = 1
    /\ driver_loaded = FALSE
    /\ ret = "none"
    /\ sys = FreshSys
    /\ hist = [FreshHist EXCEPT !.pinned = disp.Device]
    /\ surf = [s \in 1..MaxSurfaces |-> NoSurface]
    /\ buffers = NoBuffers
    /\ last = NoOp
    /\ mq = NoQuery
    /\ ip = NoInterpose

\* ------------------------------------------------- surfaceless_probe_device
swrast == disp.ForceSoftware      \* the swrast argument (line 768)

\* line 596
node_type_render == "RENDER"

node_type == IF swrast THEN "PRIMARY" ELSE "RENDER"

\* lines 602-613: the three "goto next" filters
CandidateEligible_nonode(i) ==
    /\ DeviceList[i].drm
    /\ ~(disp.HasDeviceAttrib /\ i # disp.Device)

CandidateEligible(i) ==
    /\ DeviceList[i].drm
    /\ ~(disp.HasDeviceAttrib /\ i # disp.Device)
    /\ node_type \in DeviceList[i].nodes

\* line 768: the hardware probe is entered
InitStart ==
    /\ pc = "init_start"
    /\ pc' = "hw_loop"
    /\ dev_list' = 1
    /\ hist' = [hist EXCEPT !.hw_probes = @ + 1]
    /\ UNCHANGED <<build, DeviceList, disp, dri2_dpy, driver_loaded, ret, sys>>
    /\ UNCHANGED surfVars

\* line 707: _eglDeviceNext
DeviceNext(i) == i + 1

\* lines 601-617 and 706-707: loop test, filters, loader_open_device
HwLoop ==
    /\ pc = "hw_loop"
    /\ UNCHANGED <<build, DeviceList, disp, driver_loaded, ret>>
    /\ UNCHANGED surfVars
    /\ IF dev_list > Len(DeviceList)
       THEN /\ pc' = "hw_ret"
            /\ UNCHANGED <<dev_list, dri2_dpy, sys, hist>>
       ELSE IF ~CandidateEligible(dev_list)
       THEN /\ pc' = "hw_loop"
            /\ dev_list' = DeviceNext(dev_list)
            /\ hist' = [hist EXCEPT !.examined = @ \cup {dev_list}]
            /\ UNCHANGED <<dri2_dpy, sys>>
       ELSE \E ok \in BOOLEAN :
            /\ hist' = [hist EXCEPT !.open_calls = @ + 1,
                                    !.examined = @ \cup {dev_list},
                                    !.opened = @ \cup {dev_list},
                                    !.opened_nodes = @ \cup {node_type}]
            /\ IF ok
               THEN LET fd == FreshFd(sys.open_fds) IN
                    /\ dri2_dpy' = [dri2_dpy EXCEPT !.fd_render_gpu = fd]
                    /\ sys' = [sys EXCEPT !.open_fds = @ \cup {fd}]
                    /\ pc' = IF build.wayland THEN "hw_prefer" ELSE "hw_driver"
                    /\ UNCHANGED dev_list
               ELSE /\ dri2_dpy' = [dri2_dpy EXCEPT !.fd_render_gpu = NOFD]
                    /\ pc' = "hw_loop"
                    /\ dev_list' = DeviceNext(dev_list)
                    /\ UNCHANGED sys

\* lines 619-641 (HAVE_WAYLAND_PLATFORM): loader_get_user_preferred_fd either
\* keeps one fd for both roles or opens the preferred GPU as the render fd
\* and hands the original back as the display fd.
HwPreferredFd ==
    /\ pc = "hw_prefer"
    /\ UNCHANGED <<build, DeviceList, disp, dev_list, driver_loaded, ret, hist>>
    /\ UNCHANGED surfVars
    /\ \E different \in BOOLEAN :
         IF ~different
         THEN /\ dri2_dpy' = [dri2_dpy EXCEPT
                                 !.fd_display_gpu = dri2_dpy.fd_render_gpu]
              /\ pc' = "hw_driver"
              /\ UNCHANGED sys
         ELSE LET fd == FreshFd(sys.open_fds) IN
              \E name_ok \in BOOLEAN :
              /\ sys' = [sys EXCEPT !.open_fds = @ \cup {fd}]
              /\ dri2_dpy' = [dri2_dpy EXCEPT
                                 !.fd_display_gpu = dri2_dpy.fd_render_gpu,
                                 !.fd_render_gpu = fd,
                                 !.device_name =
                                     IF name_ok THEN "renderD" ELSE NoName]
              /\ pc' = IF name_ok THEN "hw_driver" ELSE "hw_retry"

\* lines 645-658: the driver name stored for the candidate
HwDriverName_nooverride(sw, resolved, old) == resolved

HwDriverName_fallthrough(sw, resolved, old) ==
    IF sw /\ resolved \in {"vgem", "virtio_gpu"} THEN "kms_swrast" ELSE resolved

HwDriverName(sw, resolved, old) ==
    IF sw
    THEN IF resolved \in {"vgem", "virtio_gpu"} THEN "kms_swrast" ELSE old
    ELSE resolved

\* line 644: the candidate is claimed whatever name was resolved
ClaimedDevice_ifNamed(resolved, i) ==
    IF resolved # NoName THEN i ELSE disp.Device

ClaimedDevice(resolved, i) == i

\* lines 642-660: loader_get_driver_for_fd, claim of the device, driver name
HwDriver ==
    /\ pc = "hw_driver"
    /\ UNCHANGED <<build, DeviceList, dev_list, driver_loaded, ret, sys>>
    /\ UNCHANGED surfVars
    /\ \E resolved \in DriverNames \cup {NoName} :
         LET name == HwDriverName(swrast, resolved, dri2_dpy.driver_name) IN
         /\ disp' = [disp EXCEPT !.Device = ClaimedDevice(resolved, dev_list)]
         /\ dri2_dpy' = [dri2_dpy EXCEPT !.driver_name = name]
         /\ hist' = [hist EXCEPT !.resolved = resolved, !.bound = dev_list]
         /\ pc' = IF name # NoName THEN "hw_screen" ELSE "hw_retry"

\* lines 662-667: loader extension table for the candidate
HwLoaderExtensions_swFirst(kopper, sw) ==
    IF sw THEN "swrast_loader_extensions"
    ELSE IF kopper THEN "kopper_loader_extensions"
    ELSE "image_loader_extensions"

HwLoaderExtensions(kopper, sw) ==
    IF kopper THEN "kopper_loader_extensions"
    ELSE IF sw THEN "swrast_loader_extensions"
    ELSE "image_loader_extensions"

\* dri2_create_screen on success: a new render screen; the display-GPU screen
\* is the same screen when both fds are the same, otherwise a second screen
\* or none.
ScreenShapes(d) ==
    IF d.fd_render_gpu = d.fd_display_gpu THEN {"same"} ELSE {"none", "distinct"}

\* line 674: a created screen is kept only if it has graphics capability
ScreenAccepted_any(graphics) == TRUE

ScreenAccepted(graphics) == graphics

\* lines 680-687: the driDestroyScreen calls of the no-graphics branch
NoGraphicsDestroys(render, display) ==
    IF display # render THEN <<display, render>> ELSE <<render>>

\* lines 680-684: the display-GPU screen reference after the no-graphics
\* branch; it is cleared only when it differs from the render-GPU screen
NoGraphicsDisplayScreen(render, display) ==
    IF display # render THEN NULL ELSE display

\* lines 660-695: extension table, dri2_create_screen, caps.graphics test
HwScreen ==
    /\ pc = "hw_screen"
    /\ dri2_dpy.driver_name # NoName
    /\ UNCHANGED <<build, DeviceList, disp, dev_list, driver_loaded, ret>>
    /\ UNCHANGED surfVars
    /\ \E kopper \in BOOLEAN, ok \in BOOLEAN :
         LET ext == HwLoaderExtensions(kopper, swrast)
             h == [hist EXCEPT !.ext_assigns = @ + 1,
                               !.screen_attempt = dri2_dpy.driver_name]
             d0 == [dri2_dpy EXCEPT !.kopper = kopper,
                                    !.loader_extensions = ext]
         IN
         IF ~ok
         THEN /\ dri2_dpy' = d0
              /\ hist' = h
              /\ pc' = "hw_retry"
              /\ UNCHANGED sys
         ELSE \E shape \in ScreenShapes(dri2_dpy), graphics \in BOOLEAN :
              LET r == sys.screens_created + 1
                  dscr == CASE shape = "same" -> r
                            [] shape = "none" -> NULL
                            [] shape = "distinct" -> r + 1
                  made == IF shape = "distinct" THEN {r, r + 1} ELSE {r}
              IN
              /\ hist' = [h EXCEPT
                            !.graphics = IF graphics THEN "yes" ELSE "no",
                            !.made = made,
                            !.destroy_calls =
                                IF ScreenAccepted(graphics) THEN <<>>
                                ELSE NoGraphicsDestroys(r, dscr)]
              /\ IF ScreenAccepted(graphics)
                 THEN /\ dri2_dpy' = [d0 EXCEPT !.dri_screen_render_gpu = r,
                                                !.dri_screen_display_gpu = dscr,
                                                !.own_dri_screen = TRUE]
                      /\ sys' = [sys EXCEPT
                                   !.live_screens = @ \cup made,
                                   !.screens_created = @ + Cardinality(made)]
                      /\ pc' = "hw_ret"
                 ELSE \* lines 674-692
                      /\ dri2_dpy' =
                           [d0 EXCEPT !.dri_screen_render_gpu = NULL,
                                      !.dri_screen_display_gpu =
                                          NoGraphicsDisplayScreen(r, dscr),
                                      !.own_dri_screen = FALSE]
                      /\ sys' = [sys EXCEPT
                                   !.screens_created = @ + Cardinality(made)]
                      /\ pc' = "hw_retry"

\* lines 700-704: the fds closed by the rollback
RetryCloses_leak(d) ==
    IF d.fd_display_gpu # d.fd_render_gpu THEN <<d.fd_display_gpu>> ELSE <<>>

RetryCloses(d) ==
    IF d.fd_display_gpu # d.fd_render_gpu
    THEN <<d.fd_display_gpu, d.fd_render_gpu>>
    ELSE <<d.fd_render_gpu>>

RECURSIVE CloseAll(_, _)
CloseAll(s, fds) ==
    IF fds = <<>> THEN s ELSE CloseAll(Close(s, Head(fds)), Tail(fds))

\* lines 698-699: the driver name after the rollback
RetryDriverName_kept(d) == d.driver_name

RetryDriverName(d) == NoName

\* lines 697-707: rollback of the candidate, then the next candidate
HwRetry ==
    /\ pc = "hw_retry"
    /\ dri2_dpy' = [dri2_dpy EXCEPT !.driver_name = RetryDriverName(dri2_dpy),
                                    !.fd_display_gpu = NOFD,
                                    !.fd_render_gpu = NOFD]
    /\ sys' = CloseAll(sys, RetryCloses(dri2_dpy))
    /\ hist' = [hist EXCEPT !.rejected = @ + 1, !.resolved = NoName,
                            !.screen_attempt = NoName, !.graphics = "none",
                            !.made = {}, !.destroy_calls = <<>>]
    /\ dev_list' = DeviceNext(dev_list)
    /\ pc' = "hw_loop"
    /\ UNCHANGED <<build, DeviceList, disp, driver_loaded, ret>>
    /\ UNCHANGED surfVars

\* lines 710-713 and 768: the probe's result
HwReturn ==
    /\ pc = "hw_ret"
    /\ driver_loaded' = (dev_list <= Len(DeviceList))
    /\ hist' = [hist EXCEPT !.hw_result =
                   IF dev_list <= Len(DeviceList) THEN "true" ELSE "false"]
    /\ pc' = "fallback"
    /\ UNCHANGED <<build, DeviceList, disp, dri2_dpy, dev_list, ret, sys>>
    /\ UNCHANGED surfVars

\* lines 773-779: whether the software probe is tried after the hardware one
WantFallback_always(loaded) == TRUE

WantFallback(loaded) ==
    ~loaded /\ (disp.ForceSoftware \/ build.apple)

\* lines 773-782
InitFallback ==
    /\ pc = "fallback"
    /\ pc' = IF WantFallback(driver_loaded) THEN "sw_probe" ELSE "init_check"
    /\ UNCHANGED <<build, DeviceList, disp, dri2_dpy, dev_list, driver_loaded,
                   ret, sys, hist>>
    /\ UNCHANGED surfVars

\* lines 737-744: loader extension table of the software probe
SwLoaderExtensions(kopper) ==
    IF kopper
    THEN IF build.apple /\ build.metal THEN "kopper_metal_loader_extensions"
         ELSE "kopper_loader_extensions"
    ELSE "swrast_loader_extensions"

\* line 731
SwDriverName_noZink == "swrast"

SwDriverName == IF disp.Zink THEN "zink" ELSE "swrast"

\* line 724: the pinned device is not the software device
SwPinConflict_ignored(device) == FALSE

SwPinConflict(device) == disp.HasDeviceAttrib /\ disp.Device # device

\* line 728: the software device becomes the display's device
SwBoundDevice_kept(device) == disp.Device

SwBoundDevice(device) == device

\* lines 716-756 and 781: surfaceless_probe_device_sw
SwProbe ==
    /\ pc = "sw_probe"
    /\ pc' = "init_check"
    /\ UNCHANGED <<build, DeviceList, dev_list, ret>>
    /\ UNCHANGED surfVars
    /\ LET device == SWDEV
           d1 == [dri2_dpy EXCEPT !.fd_render_gpu = NOFD]
           h1 == [hist EXCEPT !.sw_probes = @ + 1]
       IN
       IF SwPinConflict(device)
       THEN /\ dri2_dpy' = d1
            /\ hist' = [h1 EXCEPT !.sw_result = "false"]
            /\ driver_loaded' = FALSE
            /\ UNCHANGED <<disp, sys>>
       ELSE \E kopper \in BOOLEAN, ok \in BOOLEAN :
            LET d2 == [d1 EXCEPT !.driver_name = SwDriverName,
                                 !.kopper = kopper,
                                 !.loader_extensions = SwLoaderExtensions(kopper),
                                 !.fd_display_gpu = d1.fd_render_gpu]
                h2 == [h1 EXCEPT !.ext_assigns = @ + 1,
                                 !.screen_attempt = SwDriverName,
                                 !.sw_attempt = SwDriverName,
                                 !.sw_ext = SwLoaderExtensions(kopper)]
                r == sys.screens_created + 1
            IN
            /\ disp' = [disp EXCEPT !.Device = SwBoundDevice(device)]
            /\ IF ok
               THEN /\ dri2_dpy' = [d2 EXCEPT !.dri_screen_render_gpu = r,
                                              !.dri_screen_display_gpu = r,
                                              !.own_dri_screen = TRUE]
                    /\ sys' = [sys EXCEPT !.live_screens = @ \cup {r},
                                          !.screens_created = r]
                    /\ hist' = [h2 EXCEPT !.sw_result = "true"]
                    /\ driver_loaded' = TRUE
               ELSE /\ dri2_dpy' = [d2 EXCEPT !.driver_name = NoName]
                    /\ hist' = [h2 EXCEPT !.sw_result = "false"]
                    /\ driver_loaded' = FALSE
                    /\ UNCHANGED sys

\* lines 784-787 and 822-823
InitCheck ==
    /\ pc = "init_check"
    /\ IF ~driver_loaded
       THEN /\ ret' = "EGL_NOT_INITIALIZED"
            /\ pc' = "done"
       ELSE /\ pc' = "setup_screen"
            /\ UNCHANGED ret
    /\ UNCHANGED <<build, DeviceList, disp, dri2_dpy, dev_list, driver_loaded,
                   sys, hist>>
    /\ UNCHANGED surfVars

\* lines 789-794: dri2_setup_screen, device name, WL_bind_wayland_display
InitSetupScreen_fillsVtbl ==
    /\ pc = "setup_screen"
    /\ pc' = "add_configs"
    /\ dri2_dpy' = [dri2_dpy EXCEPT !.vtbl = "dri2_surfaceless_display_vtbl"]
    /\ hist' = [hist EXCEPT !.vtbl_assigns = @ + 1]
    /\ UNCHANGED <<build, DeviceList, disp, dev_list, driver_loaded, ret, sys>>
    /\ UNCHANGED surfVars

InitSetupScreen ==
    /\ pc = "setup_screen"
    /\ pc' = "add_configs"
    /\ IF build.wayland
       THEN \E name \in {NoName, "renderD"} :
               dri2_dpy' = [dri2_dpy EXCEPT !.device_name = name]
       ELSE UNCHANGED dri2_dpy
    /\ UNCHANGED <<build, DeviceList, disp, dev_list, driver_loaded, ret, sys,
                   hist>>
    /\ UNCHANGED surfVars

InitAddConfigs_checksResult ==
    /\ pc = "add_configs"
    /\ \E n \in 0..MaxConfigs :
         /\ dri2_dpy' = [dri2_dpy EXCEPT !.configs = n, !.config_done = TRUE]
         /\ IF n = 0
            THEN pc' = "done" /\ ret' = "EGL_NOT_INITIALIZED"
            ELSE pc' = "fill_vtbl" /\ UNCHANGED ret
    /\ UNCHANGED <<build, DeviceList, disp, dev_list, driver_loaded, sys, hist>>
    /\ UNCHANGED surfVars

\* lines 796-808: dri2_add_pbuffer_configs_for_visuals (and the window
\* configs of the Apple build).  Its outcome is the number of configs the
\* display ends up with; none at all is the enumeration's failure.  The
\* caller does not look at it.
InitAddConfigs ==
    /\ pc = "add_configs"
    /\ pc' = "fill_vtbl"
    /\ \E n \in 0..MaxConfigs :
          dri2_dpy' = [dri2_dpy EXCEPT !.configs = n, !.config_done = TRUE]
    /\ UNCHANGED <<build, DeviceList, disp, dev_list, driver_loaded, ret, sys,
                   hist>>
    /\ UNCHANGED surfVars

\* lines 813-818: the vtbl variant
DisplayVtbl(d) ==
    IF build.apple /\ build.metal /\ d.kopper
    THEN "dri2_surfaceless_metal_display_vtbl"
    ELSE "dri2_surfaceless_display_vtbl"

\* lines 810-820
InitFillVtbl ==
    /\ pc = "fill_vtbl"
    /\ dri2_dpy' = [dri2_dpy EXCEPT !.vtbl = DisplayVtbl(dri2_dpy)]
    /\ hist' = [hist EXCEPT !.vtbl_assigns = @ + 1]
    /\ ret' = "EGL_TRUE"
    /\ pc' = "done"
    /\ UNCHANGED <<build, DeviceList, disp, dev_list, driver_loaded, sys>>
    /\ UNCHANGED surfVars

Next ==
    \/ InitStart
    \/ HwLoop
    \/ HwPreferredFd
    \/ HwDriver
    \/ HwScreen
    \/ HwRetry
    \/ HwReturn
    \/ InitFallback
    \/ SwProbe
    \/ InitCheck
    \/ InitSetupScreen
    \/ InitAddConfigs
    \/ InitFillVtbl

Spec == Init /\ [][Next]_vars

\* ---------------------------------------------------------------- surfaces
\* Displays on which surfaces are created: what dri2_initialize_surfaceless
\* leaves after a successful software probe and after a successful hardware
\* probe of a one-device list.
InitializedSw ==
    /\ build = [wayland |-> FALSE, apple |-> FALSE, metal |-> FALSE]
    /\ DeviceList = <<>>
    /\ disp = [Device |-> SWDEV, HasDeviceAttrib |-> FALSE,
               ForceSoftware |-> TRUE, Zink |-> FALSE]
    /\ dri2_dpy = [FreshDisplay EXCEPT
                     !.driver_name = "swrast",
                     !.loader_extensions = "swrast_loader_extensions",
                     !.dri_screen_render_gpu = 1,
                     !.dri_screen_display_gpu = 1,
                     !.own_dri_screen = TRUE,
                     !.vtbl = "dri2_surfaceless_display_vtbl",
                     !.configs = 1, !.config_done = TRUE]
    /\ dev_list = 1
    /\ sys = [FreshSys EXCEPT !.live_screens = {1}, !.screens_created = 1]
    /\ hist = [FreshHist EXCEPT !.hw_probes = 1, !.sw_probes = 1,
                                !.hw_result = "false", !.sw_result = "true",
                                !.ext_assigns = 1, !.vtbl_assigns = 1,
                                !.screen_attempt = "swrast",
                                !.sw_attempt = "swrast",
                                !.sw_ext = "swrast_loader_extensions"]

InitializedHw ==
    /\ build = [wayland |-> TRUE, apple |-> FALSE, metal |-> FALSE]
    /\ DeviceList = <<[drm |-> TRUE, nodes |-> {"RENDER"}]>>
    /\ disp = [Device |-> 1, HasDeviceAttrib |-> FALSE,
               ForceSoftware |-> FALSE, Zink |-> FALSE]
    /\ dri2_dpy = [FreshDisplay EXCEPT
                     !.fd_render_gpu = 3, !.fd_display_gpu = 3,
                     !.driver_name = "i915", !.device_name = "renderD",
                     !.loader_extensions = "image_loader_extensions",
                     !.dri_screen_render_gpu = 1,
                     !.dri_screen_display_gpu = 1,
                     !.own_dri_screen = TRUE,
                     !.vtbl = "dri2_surfaceless_display_vtbl",
                     !.configs = 1, !.config_done = TRUE]
    /\ dev_list = 1
    /\ sys = [FreshSys EXCEPT !.open_fds = {3}, !.live_screens = {1},
                              !.screens_created = 1]
    /\ hist = [FreshHist EXCEPT !.hw_probes = 1, !.hw_result = "true",
                                !.open_calls = 1,
                                !.ext_assigns = 1, !.vtbl_assigns = 1,
                                !.screen_attempt = "i915", !.resolved = "i915",
                                !.examined = {1}, !.opened = {1},
                                !.graphics = "yes", !.bound = 1,
                                !.opened_nodes = {"RENDER"}, !.made = {1}]

InitSurf ==
    /\ InitializedSw \/ InitializedHw
    /\ pc = "done"
    /\ driver_loaded = TRUE
    /\ ret = "EGL_TRUE"
    /\ surf = [s \in 1..MaxSurfaces |-> NoSurface]
    /\ buffers = NoBuffers
    /\ last = NoOp
    /\ mq = NoQuery
    /\ ip = NoInterpose

\* lines 141-183: dri2_surfaceless_create_surface.  The validation steps
\* (dri2_init_surface, dri2_get_dri_config, the image format of the config,
\* dri2_create_drawable) fail or succeed in the order of the code.
CreateOutcomes == {"init_failed", "no_config", "no_format", "no_drawable", "ok"}

\* The error a failing callee (dri2_init_surface, dri2_create_drawable, the
\* format lookup) left in the thread's error slot; "none" when it left none.
CalleeErrors == {"none", "EGL_BAD_ALLOC", "EGL_BAD_ATTRIBUTE", "EGL_BAD_MATCH"}

\* lines 159-176: the callees in the order create_surface reaches them
CreateSteps ==
    <<"dri2_init_surface", "dri2_get_dri_config",
      "dri2_image_format_for_pbuffer_config", "dri2_create_drawable">>

\* the step at which each outcome leaves the sequence (goto cleanup_surface)
FailsAt(outcome) ==
    CASE outcome = "init_failed" -> 1
      [] outcome = "no_config" -> 2
      [] outcome = "no_format" -> 3
      [] OTHER -> 4

\* lines 152-182: the calls create_surface makes, cleanup_surface included
CreateCalls_leak(outcome) ==
    <<"calloc">> \o SubSeq(CreateSteps, 1, FailsAt(outcome))
       \o (IF outcome \in {"no_config", "no_drawable"}
           THEN <<"free">> ELSE <<>>)

CreateCalls(outcome) ==
    <<"calloc">> \o SubSeq(CreateSteps, 1, FailsAt(outcome))
       \o (IF outcome # "ok" THEN <<"free">> ELSE <<>>)

\* lines 165-169: _eglError is called by create_surface only when no driver
\* config matches; on the other paths the error slot is what the callee left.
CreateError_silent(outcome, callee_err) == callee_err

CreateError(outcome, callee_err) ==
    IF outcome = "no_config" THEN "EGL_BAD_MATCH" ELSE callee_err

\* lines 152 and 175-178: the calloc'ed surface with its drawable
CreatedSurface_eager(drawable) ==
    [NoSurface EXCEPT !.state = "live", !.dri_drawable = drawable,
                      !.front = drawable]

CreatedSurface(drawable) ==
    [NoSurface EXCEPT !.state = "live", !.dri_drawable = drawable]

CreateSurface(s) ==
    /\ pc = "done" /\ dri2_dpy.vtbl # "NULL"
    /\ surf[s].state = "none"
    /\ \E outcome \in CreateOutcomes :
       \E callee_err \in IF outcome \in {"init_failed", "no_format",
                                          "no_drawable"}
                         THEN CalleeErrors ELSE {"none"} :
         /\ last' = [NoOp EXCEPT
                       !.op = "create",
                       !.s = IF outcome = "ok" THEN s ELSE 0,
                       !.outcome = outcome,
                       !.callee_error = callee_err,
                       !.error = CreateError(outcome, callee_err),
                       !.result = IF outcome = "ok" THEN "surface" ELSE "NULL",
                       !.calls = CreateCalls(outcome)]
         /\ IF outcome = "ok"
            THEN /\ surf' = [surf EXCEPT ![s] =
                       CreatedSurface(sys.drawables_created + 1)]
                 /\ sys' = [sys EXCEPT
                       !.drawables_created = @ + 1,
                       !.live_drawables = @ \cup {sys.drawables_created + 1}]
            ELSE UNCHANGED <<surf, sys>>
    /\ UNCHANGED <<buffers, mq, ip>>
    /\ UNCHANGED dispVars

\* line 125: the buffer roles that make get_buffers hand out the front image
FrontRequested_orBack(mask) == "FRONT" \in mask \/ "BACK" \in mask

FrontRequested(mask) == "FRONT" \in mask

\* line 127: the front image is allocated only when none is cached
NeedsAlloc_always(front) == TRUE

NeedsAlloc(front) == front = NULL

\* lines 107-137: surfaceless_image_get_buffers on a surface whose cached
\* front image is front; img is what surfaceless_alloc_image returns if it
\* is called.  Yields the new cached front image and the caller's view.
GetBuffersResult_noshortcircuit(front, mask, img) ==
    IF FrontRequested(mask)
    THEN LET f == IF NeedsAlloc(front) THEN img ELSE front IN
         [front |-> f,
          out |-> [image_mask |-> {"FRONT"}, front |-> f, back |-> NULL,
                   ret |-> 1]]
    ELSE [front |-> front, out |-> NoBuffers]

GetBuffersResult_staleOut(front, mask, img) ==
    IF FrontRequested(mask)
    THEN IF NeedsAlloc(front) /\ img = NULL
         THEN [front |-> NULL,
               out |-> [image_mask |-> {}, front |-> NULL, back |-> NULL,
                        ret |-> 0]]
         ELSE LET f == IF NeedsAlloc(front) THEN img ELSE front IN
              [front |-> f,
               out |-> [image_mask |-> {"FRONT"}, front |-> f, back |-> NULL,
                        ret |-> 1]]
    ELSE [front |-> front,
          out |-> [image_mask |-> {}, front |-> front, back |-> NULL,
                   ret |-> 1]]

GetBuffersResult(front, mask, img) ==
    IF FrontRequested(mask)
    THEN IF NeedsAlloc(front) /\ img = NULL
         THEN [front |-> NULL,
               out |-> [image_mask |-> {}, front |-> NULL, back |-> NULL,
                        ret |-> 0]]
         ELSE LET f == IF NeedsAlloc(front) THEN img ELSE front IN
              [front |-> f,
               out |-> [image_mask |-> {"FRONT"}, front |-> f, back |-> NULL,
                        ret |-> 1]]
    ELSE [front |-> front, out |-> NoBuffers]

\* lines 76-83 and 104: get_buffers and surfaceless_alloc_image only read
\* the display (its render-GPU screen); its fields are what they were
GetBuffersDisplay_reprobe(d) ==
    [d EXCEPT !.driver_name = NoName, !.dri_screen_render_gpu = NULL]

GetBuffersDisplay(d) == d

\* lines 76-83 and 97-138: get_buffers with dri_create_image as environment
GetBuffers(s, mask) ==
    /\ pc = "done" /\ dri2_dpy.vtbl # "NULL"
    /\ surf[s].state = "live"
    /\ LET front == surf[s].front
           calls == FrontRequested(mask) /\ NeedsAlloc(front)
           fresh == sys.images_created + 1
       IN
       /\ calls => surf[s].alloc_calls < MaxAllocCalls
       /\ \E img \in IF calls THEN {NULL, fresh} ELSE {NULL} :
            LET r == GetBuffersResult(front, mask, img) IN
            /\ surf' = [surf EXCEPT
                  ![s].front = r.front,
                  ![s].front_requested = @ \/ "FRONT" \in mask,
                  ![s].alloc_calls = IF calls THEN @ + 1 ELSE @,
                  ![s].alloc_fails = IF calls /\ img = NULL THEN @ + 1 ELSE @,
                  ![s].allocs = IF calls /\ img # NULL THEN @ + 1 ELSE @]
            /\ sys' = IF calls /\ img # NULL
                      THEN [sys EXCEPT !.live_images = @ \cup {img},
                                       !.images_created = fresh]
                      ELSE sys
            /\ buffers' = r.out
            /\ last' = [NoOp EXCEPT
                          !.op = "get_buffers", !.s = s, !.mask = mask,
                          !.front_before = front, !.alloc_called = calls,
                          !.alloc_ok = calls /\ img # NULL]
    /\ dri2_dpy' = GetBuffersDisplay(dri2_dpy)
    /\ UNCHANGED <<build, DeviceList, disp, pc, dev_list, driver_loaded, ret,
                   hist, mq, ip>>

\* lines 85-95: the images surfaceless_free_images destroys
FreeImages_leak(front) == {}

FreeImages(front) == {front} \ {NULL}

\* lines 85-95 and 185-197: the calls destroy_surface makes, in order
DestroyCalls_drawableFirst(front) ==
    <<"driDestroyDrawable">>
      \o (IF front # NULL THEN <<"dri2_destroy_image">> ELSE <<>>)
      \o <<"free_swrast_device_buffer", "dri2_fini_surface", "free">>

DestroyCalls(front) ==
    (IF front # NULL THEN <<"dri2_destroy_image">> ELSE <<>>)
      \o <<"free_swrast_device_buffer", "driDestroyDrawable",
           "dri2_fini_surface", "free">>

\* lines 85-95 and 185-197: surfaceless_destroy_surface
DestroySurface(s) ==
    /\ pc = "done" /\ dri2_dpy.vtbl # "NULL"
    /\ surf[s].state = "live"
    \* the freed surface keeps nothing but the record that it was
    \* destroyed and whether it ever owned an image
    /\ surf' = [surf EXCEPT ![s] =
                  [NoSurface EXCEPT !.state = "destroyed",
                                    !.allocs = surf[s].allocs]]
    /\ sys' = [sys EXCEPT
                 !.live_images = @ \ FreeImages(surf[s].front),
                 !.images_freed = @ + Cardinality(FreeImages(surf[s].front)),
                 !.live_drawables = @ \ {surf[s].dri_drawable}]
    /\ last' = [NoOp EXCEPT !.op = "destroy", !.s = s,
                            !.front_before = surf[s].front,
                            !.calls = DestroyCalls(surf[s].front)]
    /\ UNCHANGED <<buffers, mq, ip>>
    /\ UNCHANGED dispVars

\* enum dri_loader_cap as surfaceless_get_capability distinguishes it: the
\* two capabilities it names and any other query
LoaderCaps ==
    {"DRI_LOADER_CAP_FP16", "DRI_LOADER_CAP_RGBA_ORDERING", "OTHER"}

\* lines 302-314: surfaceless_get_capability
surfaceless_get_capability_noRGBA(cap) ==
    IF cap = "DRI_LOADER_CAP_FP16" THEN 1 ELSE 0

surfaceless_get_capability(cap) ==
    CASE cap = "DRI_LOADER_CAP_FP16" -> 1
      [] cap = "DRI_LOADER_CAP_RGBA_ORDERING" -> 1
      [] OTHER -> 0

\* the driver querying the loader through image_loader_extension (line 320)
GetCapability(cap) ==
    /\ pc = "done" /\ dri2_dpy.vtbl # "NULL"
    /\ last' = [NoOp EXCEPT !.op = "get_capability", !.cap = cap,
                            !.cap_result = surfaceless_get_capability(cap)]
    /\ UNCHANGED <<surf, buffers, sys, mq, ip>>
    /\ UNCHANGED dispVars

NextSurf ==
    \/ \E s \in 1..MaxSurfaces : CreateSurface(s)
    \/ \E s \in 1..MaxSurfaces, mask \in SUBSET BufferRoles : GetBuffers(s, mask)
    \/ \E s \in 1..MaxSurfaces : DestroySurface(s)
    \/ \E cap \in LoaderCaps : GetCapability(cap)

SpecSurf == InitSurf /\ [][NextSurf]_vars

\* -------------------------------------------- Metal drawable size query
\* The display of the Apple/Metal build after a successful software probe
\* that detected kopper: the loader extensions are the Metal kopper ones,
\* whose GetDrawableInfo is surfaceless_metal_kopper_get_drawable_info.
InitializedMetal ==
    /\ build = [wayland |-> FALSE, apple |-> TRUE, metal |-> TRUE]
    /\ DeviceList = <<>>
    /\ disp = [Device |-> SWDEV, HasDeviceAttrib |-> FALSE,
               ForceSoftware |-> FALSE, Zink |-> TRUE]
    /\ dri2_dpy = [FreshDisplay EXCEPT
                     !.driver_name = "zink",
                     !.kopper = TRUE,
                     !.loader_extensions = "kopper_metal_loader_extensions",
                     !.dri_screen_render_gpu = 1,
                     !.dri_screen_display_gpu = 1,
                     !.own_dri_screen = TRUE,
                     !.vtbl = "dri2_surfaceless_metal_display_vtbl",
                     !.configs = 1, !.config_done = TRUE]
    /\ dev_list = 1
    /\ sys = [FreshSys EXCEPT !.live_screens = {1}, !.screens_created = 1]
    /\ hist = [FreshHist EXCEPT !.hw_probes = 1, !.sw_probes = 1,
                                !.hw_result = "false", !.sw_result = "true",
                                !.ext_assigns = 1, !.vtbl_assigns = 1,
                                !.screen_attempt = "zink",
                                !.sw_attempt = "zink",
                                !.sw_ext = "kopper_metal_loader_extensions"]

InitMetal ==
    /\ InitializedMetal
    /\ pc = "done"
    /\ driver_loaded = TRUE
    /\ ret = "EGL_TRUE"
    /\ surf = [s \in 1..MaxSurfaces |-> NoSurface]
    /\ buffers = NoBuffers
    /\ last = NoOp
    /\ mq = NoQuery
    /\ ip = NoInterpose

\* line 399: pthread_main_np() of the calling thread
RunsInline_never(thread) == FALSE

RunsInline(thread) == thread = "main"

\* lines 52-72: get_drawable_size_main_thread stores the layer's
\* drawableSize in the context
get_drawable_size_main_thread(q) == [q EXCEPT !.ctx = q.size]

\* lines 373-412: surfaceless_metal_kopper_get_drawable_info called on
\* thread for a surface whose NativeSurface is layer and whose stored size
\* is stored; size is the drawableSize the layer has.  Without a layer it
\* returns the stored size; on the main thread it runs the query inline and
\* returns; otherwise it enters dispatch_sync_f, which queues the query on
\* the main queue and blocks the caller.
GetDrawableInfo(thread, layer, size, stored) ==
    /\ pc = "done"
    /\ dri2_dpy.loader_extensions = "kopper_metal_loader_extensions"
    /\ mq.pc \in {"idle", "returned"}
    /\ mq.calls < MaxQueries
    /\ LET q0 == [NoQuery EXCEPT !.thread = thread, !.layer = layer,
                                 !.size = IF layer # NULL THEN size
                                          ELSE NoSize,
                                 !.stored = stored,
                                 !.queue = mq.queue,
                                 !.calls = mq.calls + 1]
       IN
       mq' = IF layer = NULL
             THEN [q0 EXCEPT !.out = stored, !.pc = "returned"]
             ELSE IF RunsInline(thread)
             THEN LET q1 == get_drawable_size_main_thread(q0) IN
                  [q1 EXCEPT !.ran_on = thread, !.done = TRUE,
                             !.out = q1.ctx, !.pc = "returned"]
             ELSE [q0 EXCEPT !.queue = Append(@, "query"),
                             !.dispatched = TRUE, !.pc = "blocked"]
    /\ UNCHANGED <<surf, buffers, last, sys, ip>>
    /\ UNCHANGED dispVars

\* other work is posted to the main dispatch queue
MainEnqueue ==
    /\ pc = "done"
    /\ dri2_dpy.loader_extensions = "kopper_metal_loader_extensions"
    /\ Len(mq.queue) < MaxQueued
    /\ mq' = [mq EXCEPT !.queue = Append(@, "other")]
    /\ UNCHANGED <<surf, buffers, last, sys, ip>>
    /\ UNCHANGED dispVars

\* the main thread drains its queue in order; it cannot while it is itself
\* blocked in dispatch_sync_f.  Running the queued query is line 402's
\* get_drawable_size_main_thread on the main thread.
MainRunBlock ==
    /\ pc = "done"
    /\ mq.queue # <<>>
    /\ ~(mq.thread = "main" /\ mq.pc = "blocked")
    /\ mq' = IF Head(mq.queue) = "query"
             THEN [get_drawable_size_main_thread(mq) EXCEPT
                      !.queue = Tail(@), !.ran_on = "main", !.done = TRUE]
             ELSE [mq EXCEPT !.queue = Tail(@)]
    /\ UNCHANGED <<surf, buffers, last, sys, ip>>
    /\ UNCHANGED dispVars

\* lines 402-407: dispatch_sync_f returns once the query has run; the caller
\* then reads the context and returns
DispatchReturn ==
    /\ pc = "done"
    /\ mq.pc = "blocked"
    /\ mq.done
    /\ mq' = [mq EXCEPT !.out = mq.ctx, !.pc = "returned"]
    /\ UNCHANGED <<surf, buffers, last, sys, ip>>
    /\ UNCHANGED dispVars

NextMetal ==
    \/ \E thread \in {"main", "worker"}, layer \in {NULL, 1},
          size \in LayerSizes, stored \in LayerSizes :
          GetDrawableInfo(thread, layer, size, stored)
    \/ MainEnqueue
    \/ MainRunBlock
    \/ DispatchReturn

\* dispatch_sync_f wakes its caller once the block has run: the return is
\* taken whenever it stays possible.  Nothing obliges the main thread to
\* drain its queue.
SpecMetal == InitMetal /\ [][NextMetal]_vars /\ WF_vars(DispatchReturn)

\* ------------------------------------------------- dlsym interposer
\* src/glwrapper/libgl_interpose.c.  DYLD_INTERPOSE (line 111) replaces dlsym
\* by my_dlsym in every other image of the process; the calls to dlsym made
\* by this file itself (lines 81 and 108) reach the real dlsym.  Library
\* code that runs inside setenv/dladdr/fprintf, inside dlopen (initializers
\* of the loaded library) or inside the EGL resolver may call dlsym and so
\* enter my_dlsym again on the same thread.
InitInterpose ==
    /\ InitializedMetal
    /\ pc = "done"
    /\ driver_loaded = TRUE
    /\ ret = "EGL_TRUE"
    /\ surf = [s \in 1..MaxSurfaces |-> NoSurface]
    /\ buffers = NoBuffers
    /\ last = NoOp
    /\ mq = NoQuery
    /\ ip = NoInterpose

\* the symbol argument: NULL or a C string, given by its characters
Sym(chars) == [null |-> FALSE, chars |-> chars]
Symbols ==
    {NoSymbol, Sym(<<"g">>), Sym(<<"g", "l">>), Sym(<<"g", "l", "A">>),
     Sym(<<"e", "g", "l">>)}
\* the handle argument: RTLD_DEFAULT or a handle the caller got from dlopen
Handles == {1, 2}
\* what dlopen (line 78), dlsym(egl_handle, "eglGetProcAddress") (line 81),
\* mesa_eglGetProcAddress(symbol) (line 101) and the real dlsym (line 108)
\* can return: NULL or a pointer
DlopenResults == {NULL, 3}
ResolverLookupResults == {NULL, 4}
ProcResults == {NULL, 5}
RealDlsymResults == {NULL, 6}

\* line 100: strncmp(symbol, "gl", 2) == 0 compares the first two
\* characters; a string that ends before them differs at its terminator
strncmp_gl(chars) == Len(chars) >= 2 /\ chars[1] = "g" /\ chars[2] = "l"

\* line 100: symbol && strncmp(symbol, "gl", 2) == 0
IsGLSymbol(symbol) == ~symbol.null /\ strncmp_gl(symbol.chars)

\* lines 33-49: determine_paths; found tells whether dladdr gave a file name
\* with a directory part
determine_paths(st, found) ==
    IF st.lib_dir # "" THEN st
    ELSE IF found
    THEN [st EXCEPT !.lib_dir = "dir", !.egl_lib_path = "dir/libEGL.dylib"]
    ELSE [st EXCEPT !.egl_lib_path = "libEGL.dylib"]

\* lines 56-68: the body of set_env_vars after its flag is set
set_env_body(st, found) ==
    LET p == determine_paths(st, found) IN
    [p EXCEPT !.setenv_runs = @ + 1,
              !.env = [MESA_EGL_LIBRARY |-> p.egl_lib_path,
                       MESA_VULKAN_LIBRARY |->
                           IF p.lib_dir # "" THEN "dir/libvulkan.1.dylib"
                           ELSE st.env.MESA_VULKAN_LIBRARY]]

\* line 72: ensure_initialized goes on only while the flag is clear
NeedsInit_untilLoaded(st) == st.egl_handle = NULL

NeedsInit(st) == st.initialized = 0

Top == ip.stack[Len(ip.stack)]
SetTop(st, f) == [st EXCEPT !.stack[Len(st.stack)] = f]
Pop(st) == [st EXCEPT !.stack = SubSeq(@, 1, Len(@) - 1)]
\* positions of a frame at which library code outside this file is running
ReentrantPoints == {"set_env_vars", "dlopen", "resolver"}
InitInProgress ==
    \E i \in 1..Len(ip.stack) : ip.stack[i].pc \in {"set_env_vars", "dlopen"}

ipFrame ==
    /\ UNCHANGED <<surf, buffers, last, mq, sys>>
    /\ UNCHANGED dispVars

\* line 91: some image calls dlsym(handle, symbol) and enters my_dlsym, from
\* the program or from library code an outer frame is waiting for
Lookup(handle, symbol) ==
    /\ ip.lookups < MaxLookups
    /\ Len(ip.stack) < MaxDepth
    /\ ip.stack # <<>> => Top.pc \in ReentrantPoints
    /\ ip' = [ip EXCEPT
                !.stack = Append(@, [handle |-> handle, symbol |-> symbol,
                                     pc |-> "entry", resolver |-> NULL,
                                     asked |-> FALSE, proc |-> NULL]),
                !.lookups = @ + 1,
                !.nested_in_init = @ \/ InitInProgress]
    /\ ipFrame

\* lines 93-95 with lines 53-54: set_env_vars is entered only with the flag
\* clear and sets it before anything else
MyDlsymEntry ==
    /\ ip.stack # <<>>
    /\ Top.pc = "entry"
    /\ ip' = IF ip.env_vars_set = 0
             THEN [SetTop(ip, [Top EXCEPT !.pc = "set_env_vars"])
                      EXCEPT !.env_vars_set = 1]
             ELSE SetTop(ip, [Top EXCEPT !.pc = "ensure"])
    /\ ipFrame

\* lines 56-68: the rest of set_env_vars called from line 94
SetEnvVars(found) ==
    /\ ip.stack # <<>>
    /\ Top.pc = "set_env_vars"
    /\ ip' = SetTop(set_env_body(ip, found), [Top EXCEPT !.pc = "ensure"])
    /\ ipFrame

\* lines 97, 72-78: ensure_initialized up to the call of dlopen; its
\* set_env_vars (line 76) returns at line 53 when the flag is set
EnsureInitialized(found) ==
    /\ ip.stack # <<>>
    /\ Top.pc = "ensure"
    /\ ip' = IF ~NeedsInit(ip)
             THEN SetTop(ip, [Top EXCEPT !.pc = "check"])
             ELSE LET a == determine_paths([ip EXCEPT !.initialized = 1],
                                           found)
                      b == IF a.env_vars_set # 0 THEN a
                           ELSE set_env_body([a EXCEPT !.env_vars_set = 1],
                                             found)
                  IN SetTop([b EXCEPT !.dlopen_calls = @ + 1],
                            [Top EXCEPT !.pc = "dlopen"])
    /\ ipFrame

\* lines 78-88: dlopen returns h; with a handle, the real dlsym gives r for
\* "eglGetProcAddress"
DlopenReturn(h, r) ==
    /\ ip.stack # <<>>
    /\ Top.pc = "dlopen"
    /\ ip' = SetTop([ip EXCEPT !.egl_handle = h,
                               !.mesa_eglGetProcAddress =
                                   IF h # NULL THEN r ELSE @],
                    [Top EXCEPT !.pc = "check"])
    /\ ipFrame

\* lines 100-101: a GL symbol goes to the resolver if there is one
CheckSymbol ==
    /\ ip.stack # <<>>
    /\ Top.pc = "check"
    /\ ip' = IF IsGLSymbol(Top.symbol) /\ ip.mesa_eglGetProcAddress # NULL
             THEN SetTop(ip, [Top EXCEPT
                                 !.pc = "resolver", !.asked = TRUE,
                                 !.resolver = ip.mesa_eglGetProcAddress])
             ELSE SetTop(ip, [Top EXCEPT
                                 !.pc = "real",
                                 !.resolver = ip.mesa_eglGetProcAddress])
    /\ ipFrame

\* what my_dlsym hands back from frame f
Returned(f, via, value) ==
    [valid |-> TRUE, handle |-> f.handle, symbol |-> f.symbol, via |-> via,
     value |-> value, resolver |-> f.resolver, asked |-> f.asked,
     proc |-> f.proc,
     real_handle |-> IF via = "real" THEN f.handle ELSE NULL,
     real_symbol |-> IF via = "real" THEN f.symbol ELSE NoSymbol,
     depth |-> Len(ip.stack)]

\* lines 101-105: the resolver returns proc; a non-null proc is returned
ResolverReturn(proc) ==
    /\ ip.stack # <<>>
    /\ Top.pc = "resolver"
    /\ ip' = IF proc # NULL
             THEN [Pop(ip) EXCEPT
                     !.ret = Returned([Top EXCEPT !.proc = proc],
                                      "egl", proc)]
             ELSE SetTop(ip, [Top EXCEPT !.pc = "real", !.proc = proc])
    /\ ipFrame

\* line 108: the real dlsym is called with the caller's handle and symbol
\* and its result returned
RealDlsymReturn(value) ==
    /\ ip.stack # <<>>
    /\ Top.pc = "real"
    /\ ip' = [Pop(ip) EXCEPT !.ret = Returned(Top, "real", value)]
    /\ ipFrame

NextInterpose ==
    \/ \E handle \in Handles, symbol \in Symbols : Lookup(handle, symbol)
    \/ MyDlsymEntry
    \/ \E found \in BOOLEAN : SetEnvVars(found)
    \/ \E found \in BOOLEAN : EnsureInitialized(found)
    \/ \E h \in DlopenResults, r \in ResolverLookupResults : DlopenReturn(h, r)
    \/ CheckSymbol
    \/ \E proc \in ProcResults : ResolverReturn(proc)
    \/ \E value \in RealDlsymResults : RealDlsymReturn(value)

SpecInterpose == InitInterpose /\ [][NextInterpose]_vars

\* ------------------------------------------------------------------ claims

\* C1: two successive get_buffers calls that request the front buffer of a
\* surface, the first of which allocated it, return the identical handle: a
\* front request on a surface with a cached front image returns that image
\* without invoking the allocator, and no surface ever sees more than one
\* successful allocation.
C1_IdempotentLazyAllocation ==
    /\ \A s \in 1..MaxSurfaces : surf[s].allocs <= 1
    /\ (last.op = "get_buffers" /\ "FRONT" \in last.mask
            /\ last.front_before # NULL)
         => /\ buffers.ret = 1
            /\ buffers.front = last.front_before
            /\ surf[last.s].front = last.front_before
            /\ ~last.alloc_called

C1_Witness ==
    /\ last.op = "get_buffers" /\ "FRONT" \in last.mask
    /\ last.front_before # NULL
    /\ buffers.front = last.front_before
    /\ surf[last.s].alloc_calls = 1

\* C2 as stated: a get_buffers call whose mask asks for the back role yields
\* the buffer a front-role request yields (here: the cached front image).
C2_BackServedFromFront ==
    (last.op = "get_buffers" /\ "BACK" \in last.mask
        /\ last.front_before # NULL)
      => (buffers.front = last.front_before
            \/ buffers.back = last.front_before)

\* C2 amended: the front image is handed out only when the mask includes the
\* front role and only in the front slot; a mask with both roles yields what a
\* front-only mask yields, a back-only mask yields success with an empty
\* buffer set, and the back slot is never filled.
C2_OnlyFrontRoleServed ==
    last.op = "get_buffers" =>
      /\ buffers.back = NULL
      /\ "FRONT" \notin last.mask =>
            /\ buffers = NoBuffers
            /\ surf[last.s].front = last.front_before
            /\ ~last.alloc_called
      /\ ("FRONT" \in last.mask /\ buffers.ret = 1) =>
            /\ buffers.image_mask = {"FRONT"}
            /\ buffers.front # NULL
            /\ buffers.front = surf[last.s].front

C2_Witness ==
    /\ last.op = "get_buffers" /\ last.mask = {"BACK"}
    /\ last.front_before # NULL
    /\ buffers = NoBuffers

\* C3: a front request whose image allocation fails returns 0 with an empty
\* buffer set and leaves the cached front image null; the failure is not
\* sticky: every front request on a surface without a cached image invokes
\* the allocator, and when the allocation succeeds the image is returned.
C3_AllocationFailureRetryable ==
    last.op = "get_buffers" =>
      /\ (last.alloc_called /\ ~last.alloc_ok) =>
            /\ buffers = [image_mask |-> {}, front |-> NULL, back |-> NULL,
                          ret |-> 0]
            /\ surf[last.s].front = NULL
      /\ ("FRONT" \in last.mask /\ last.front_before = NULL) =>
            last.alloc_called
      /\ last.alloc_ok =>
            /\ buffers.ret = 1
            /\ buffers.image_mask = {"FRONT"}
            /\ buffers.front # NULL
            /\ buffers.front = surf[last.s].front
            /\ buffers.front \in sys.live_images

C3_Witness ==
    /\ last.op = "get_buffers" /\ last.alloc_ok
    /\ surf[last.s].alloc_fails > 0
    /\ buffers.front = surf[last.s].front /\ buffers.front # NULL

\* The constraints of C4 on candidate i: DRM device class, the pinned device
\* if one was pinned, and the node category selected by force_software.
SatisfiesConstraints(i) ==
    /\ DeviceList[i].drm
    /\ disp.HasDeviceAttrib => i = disp.Device
    /\ (IF disp.ForceSoftware THEN "PRIMARY" ELSE "RENDER")
          \in DeviceList[i].nodes

\* C4: if no candidate of the device list satisfies the device-class, pinned
\* device and node-category constraints, the hardware probe returns false and
\* never calls loader_open_device.
C4_NoEligibleNoOpen ==
    (\A i \in 1..Len(DeviceList) : ~SatisfiesConstraints(i)) =>
      /\ hist.open_calls = 0
      /\ sys.open_fds = {}
      /\ hist.hw_result # "true"
      /\ pc \notin {"init_start", "hw_loop", "hw_ret"} => hist.hw_result = "false"

C4_Witness ==
    /\ Len(DeviceList) = MaxDevices
    /\ \A i \in 1..Len(DeviceList) : ~SatisfiesConstraints(i)
    /\ \E i \in 1..Len(DeviceList) : DeviceList[i].drm
    /\ hist.hw_result = "false"
    /\ hist.open_calls = 0

\* C5: whenever the hardware probe is about to examine a candidate, every
\* handle opened for the rejected candidates before it is closed and both fd
\* fields are unopened; at any point the open handles are those of the one
\* candidate in the display's fd fields, and a failed probe leaves none open.
C5_NoHandleLeakAcrossCandidates ==
    /\ pc = "hw_loop" =>
          /\ dri2_dpy.fd_render_gpu = NOFD
          /\ dri2_dpy.fd_display_gpu = NOFD
          /\ sys.open_fds = {}
    /\ sys.open_fds \subseteq {dri2_dpy.fd_render_gpu, dri2_dpy.fd_display_gpu}
    /\ hist.hw_result = "false" => sys.open_fds = {}

C5_Witness ==
    /\ pc = "hw_loop" /\ dev_list <= Len(DeviceList)
    /\ hist.rejected > 0
    /\ hist.open_calls > 0
    /\ sys.open_fds = {}

\* C6 as stated: the vtbl is not assigned before config setup has completed,
\* and when config setup fails (adds no configuration) after a successful
\* probe the display is left without a vtbl.
C6_ConfigFailureLeavesNoVtbl ==
    /\ dri2_dpy.vtbl # "NULL" => dri2_dpy.config_done
    /\ (pc = "done" /\ driver_loaded /\ dri2_dpy.configs = 0) =>
          dri2_dpy.vtbl = "NULL"

\* C6 amended: the vtbl is never assigned before config setup has completed,
\* and config setup has no failure path: after a successful probe the vtbl is
\* assigned and EGL_TRUE returned whatever config setup produced, also when
\* it added no configuration.
C6_VtblAfterConfigSetup ==
    /\ dri2_dpy.vtbl # "NULL" => (dri2_dpy.config_done /\ driver_loaded)
    /\ (pc = "done" /\ driver_loaded) =>
          /\ dri2_dpy.vtbl # "NULL"
          /\ dri2_dpy.config_done
          /\ ret = "EGL_TRUE"

C6_Witness ==
    /\ pc = "done" /\ driver_loaded
    /\ dri2_dpy.configs = 0
    /\ dri2_dpy.vtbl # "NULL"

\* C7 as stated: the table variant chosen among hardware-image,
\* software-pbuffer and presentation-enabled (loader_extensions) is assigned
\* exactly once and only after probing and config setup both succeeded.
C7_ExtensionTableAssignedOnceAtEnd ==
    /\ hist.ext_assigns <= 1
    /\ dri2_dpy.loader_extensions # "NULL" =>
          (driver_loaded /\ dri2_dpy.config_done)

\* C7 amended: the vtbl is assigned at most once, only as the last step of an
\* initialization whose probing and config setup completed, and is not
\* changed afterwards; the loader extension table is assigned during probing,
\* before every screen creation attempt, once per attempt.
C7_VtblAssignedOnceAtEnd ==
    /\ hist.vtbl_assigns <= 1
    /\ hist.vtbl_assigns = 1 <=> dri2_dpy.vtbl # "NULL"
    /\ dri2_dpy.vtbl # "NULL" =>
          (pc = "done" /\ driver_loaded /\ dri2_dpy.config_done)
    /\ hist.screen_attempt # NoName =>
          (dri2_dpy.loader_extensions # "NULL" /\ hist.ext_assigns >= 1)
    /\ hist.ext_assigns <= hist.rejected + 1 + hist.sw_probes

C7_Witness ==
    /\ pc = "done" /\ dri2_dpy.vtbl # "NULL"
    /\ hist.vtbl_assigns = 1
    /\ hist.ext_assigns >= 2
    /\ hist.rejected >= 1

\* C8: the hardware probe runs first and exactly once; the software probe runs
\* at most once and only after the hardware probe failed with force-software
\* requested or on the Apple build, never after a successful hardware probe;
\* when every attempted probe failed, initialization ends with
\* EGL_NOT_INITIALIZED.
C8_ProbeOrder ==
    /\ hist.hw_probes <= 1 /\ hist.sw_probes <= 1
    /\ pc # "init_start" => hist.hw_probes = 1
    /\ (pc = "sw_probe" \/ hist.sw_probes = 1) =>
          /\ hist.hw_probes = 1
          /\ hist.hw_result = "false"
          /\ disp.ForceSoftware \/ build.apple
    /\ hist.hw_result = "true" => hist.sw_result = "none"
    /\ pc = "done" =>
          /\ hist.hw_probes = 1
          /\ (hist.hw_result = "false" /\ hist.sw_result # "true") <=>
                ret = "EGL_NOT_INITIALIZED"
          /\ (hist.hw_result = "false"
                /\ (disp.ForceSoftware \/ build.apple)) => hist.sw_probes = 1

C8_Witness ==
    /\ pc = "done"
    /\ hist.hw_probes = 1 /\ hist.sw_probes = 1
    /\ hist.sw_result = "false"
    /\ ret = "EGL_NOT_INITIALIZED"

\* C9: when initialization ends in terminal failure it reports
\* EGL_NOT_INITIALIZED with the vtbl unassigned and the display uninitialized:
\* no device handle open, both fd fields unopened, no driver name and no
\* screen held in either screen field.
C9_TerminalFailureLeavesDisplayClean ==
    (pc = "done" /\ ~driver_loaded) =>
      /\ ret = "EGL_NOT_INITIALIZED"
      /\ dri2_dpy.vtbl = "NULL"
      /\ dri2_dpy.fd_render_gpu = NOFD /\ dri2_dpy.fd_display_gpu = NOFD
      /\ sys.open_fds = {}
      /\ dri2_dpy.driver_name = NoName
      /\ sys.live_screens = {}
      /\ dri2_dpy.dri_screen_render_gpu = NULL
      /\ dri2_dpy.dri_screen_display_gpu = NULL

\* C10: in a hardware probe with force_software, once a candidate's driver
\* name resolved to "vgem" or "virtio_gpu" the display's driver name is
\* exactly "kms_swrast" and the screen creation of that candidate is
\* attempted with that name.
C10_KmsSwrastOverride ==
    (disp.ForceSoftware /\ hist.resolved \in {"vgem", "virtio_gpu"}) =>
      /\ "PRIMARY" \in DeviceList[dev_list].nodes
      /\ dri2_dpy.driver_name = "kms_swrast"
      /\ pc # "hw_screen" => hist.screen_attempt = "kms_swrast"

C10_Witness ==
    /\ disp.ForceSoftware
    /\ hist.resolved = "virtio_gpu"
    /\ DeviceList[dev_list].nodes = {"PRIMARY"}
    /\ dri2_dpy.driver_name = "kms_swrast"
    /\ hist.screen_attempt = "kms_swrast"

\* C11: the software probe attempts screen creation with exactly "zink" when
\* the Zink option is set and exactly "swrast" otherwise, with no other name,
\* and that is the driver name a successful software probe leaves.
C11_SoftwareDriverName ==
    /\ hist.sw_attempt \in {NoName, "swrast", "zink"}
    /\ hist.sw_attempt # NoName =>
          /\ hist.sw_probes = 1
          /\ disp.Zink => hist.sw_attempt = "zink"
          /\ ~disp.Zink => hist.sw_attempt = "swrast"
    /\ (hist.sw_probes = 1
          /\ ~(disp.HasDeviceAttrib /\ hist.pinned # SWDEV)) =>
          hist.sw_attempt # NoName
    /\ hist.sw_result = "true" => dri2_dpy.driver_name = hist.sw_attempt

C11_Witness ==
    /\ disp.Zink
    /\ hist.sw_result = "true"
    /\ hist.sw_attempt = "zink"
    /\ dri2_dpy.driver_name = "zink"

\* C16: whenever the hardware probe is about to examine a candidate nothing of
\* the rejected candidates is left (no driver name, no open handle, no live
\* screen); after a successful hardware probe the device identity, the
\* driver name, the open handles and the screens are those of the one
\* successful candidate.
C16_NoLeakIntoFinalDisplay ==
    /\ pc = "hw_loop" =>
          /\ dri2_dpy.driver_name = NoName
          /\ sys.open_fds = {}
          /\ sys.live_screens = {}
    /\ hist.hw_result = "true" =>
          /\ disp.Device = dev_list
          /\ dev_list \in hist.opened
          /\ hist.resolved # NoName
          /\ disp.ForceSoftware =>
                /\ hist.resolved \in {"vgem", "virtio_gpu"}
                /\ dri2_dpy.driver_name = "kms_swrast"
          /\ ~disp.ForceSoftware => dri2_dpy.driver_name = hist.resolved
          /\ hist.screen_attempt = dri2_dpy.driver_name
          /\ dri2_dpy.fd_render_gpu \in sys.open_fds
          /\ sys.open_fds =
                {dri2_dpy.fd_render_gpu, dri2_dpy.fd_display_gpu} \ {NOFD}
          /\ dri2_dpy.dri_screen_render_gpu \in sys.live_screens
          /\ sys.live_screens =
                {dri2_dpy.dri_screen_render_gpu,
                 dri2_dpy.dri_screen_display_gpu} \ {NULL}

C16_Witness ==
    /\ hist.hw_result = "true"
    /\ hist.rejected >= 1
    /\ Cardinality(hist.opened) >= 2
    /\ disp.Device = dev_list
    /\ dri2_dpy.driver_name = hist.resolved

\* C17: the hardware probe examines the candidates in list order and stops at
\* the first candidate whose screen was created with graphics capability:
\* that candidate is selected, the probe returns true and no candidate after
\* it is examined or opened.
C17_FirstGraphicsCandidateWins ==
    /\ hist.opened \subseteq hist.examined
    /\ \E k \in 0..Len(DeviceList) : hist.examined = 1..k
    /\ pc = "hw_loop" => hist.examined = 1..(dev_list - 1)
    /\ hist.graphics = "yes" =>
          /\ pc \notin {"hw_loop", "hw_retry"}
          /\ hist.examined = 1..dev_list
          /\ hist.hw_result # "false"
    /\ hist.hw_result = "true" =>
          /\ hist.graphics = "yes"
          /\ dev_list \in 1..Len(DeviceList)
          /\ disp.Device = dev_list
          /\ hist.examined = 1..dev_list
          /\ pc = "fallback" => driver_loaded
    /\ hist.hw_result = "false" => hist.examined = 1..Len(DeviceList)

C17_Witness ==
    /\ hist.hw_result = "true"
    /\ dev_list = 1 /\ Len(DeviceList) >= 2
    /\ ~disp.HasDeviceAttrib
    /\ SatisfiesConstraints(2)
    /\ hist.opened = {1}
    /\ disp.Device = 1

\* C18: the software probe fails when the caller pinned a device other than
\* the software device: it returns false without setting a driver name,
\* without choosing a loader extension table and without attempting screen
\* creation.
C18_SoftwareProbePinConflict ==
    (hist.sw_probes = 1 /\ disp.HasDeviceAttrib /\ hist.pinned # SWDEV) =>
      /\ hist.sw_result = "false"
      /\ ~driver_loaded
      /\ disp.Device = hist.pinned
      /\ dri2_dpy.driver_name = NoName
      /\ hist.sw_attempt = NoName
      /\ hist.sw_ext = "NULL"
      /\ sys.live_screens = {}
      /\ pc = "done" => ret = "EGL_NOT_INITIALIZED"

C18_Witness ==
    /\ hist.sw_probes = 1
    /\ disp.HasDeviceAttrib /\ hist.pinned # SWDEV
    /\ hist.sw_result = "false"
    /\ hist.sw_attempt = NoName

C13_EveryValidationFailureReportsMismatch ==
    (last.op = "create"
        /\ last.outcome \in {"init_failed", "no_config", "no_format"}) =>
      /\ last.calls[Len(last.calls)] = "free"
      /\ last.error = "EGL_BAD_MATCH"

\* C13 amended: every validation failure releases the partial surface exactly
\* once, as the last call, and returns no surface; create_surface itself
\* reports EGL_BAD_MATCH only when no driver config matches, and on the other
\* failures the error is whatever the failing callee left, possibly none.
C13_ValidationFailureReleasesSurface ==
    (last.op = "create"
        /\ last.outcome \in {"init_failed", "no_config", "no_format"}) =>
      /\ last.result = "NULL"
      /\ last.s = 0
      /\ last.calls[1] = "calloc"
      /\ last.calls[Len(last.calls)] = "free"
      /\ Cardinality({i \in 1..Len(last.calls) : last.calls[i] = "free"}) = 1
      /\ last.outcome = "no_config" => last.error = "EGL_BAD_MATCH"
      /\ last.outcome # "no_config" => last.error = last.callee_error

C13_Witness ==
    /\ last.op = "create" /\ last.outcome = "no_format"
    /\ last.result = "NULL"
    /\ last.error = "none"
    /\ last.calls[Len(last.calls)] = "free"

\* C14: destroy_surface destroys the front image if there is one and clears
\* the cached reference, releases the software staging buffer, then destroys
\* the drawable, then frees the surface: the image is never destroyed after
\* the drawable.
C14_DestroyOrder ==
    last.op = "destroy" =>
      LET n == Len(last.calls)
          At(c) == {i \in 1..n : last.calls[i] = c}
      IN
      /\ surf[last.s].state = "destroyed"
      /\ surf[last.s].front = NULL
      /\ last.front_before # NULL <=> At("dri2_destroy_image") # {}
      /\ last.front_before # NULL => last.front_before \notin sys.live_images
      /\ Cardinality(At("driDestroyDrawable")) = 1
      /\ Cardinality(At("free_swrast_device_buffer")) = 1
      /\ At("free") = {n}
      /\ \A d \in At("driDestroyDrawable") :
            /\ \A i \in At("dri2_destroy_image") : i < d
            /\ \A b \in At("free_swrast_device_buffer") : b < d
            /\ d < n

C14_Witness ==
    /\ last.op = "destroy"
    /\ last.front_before # NULL
    /\ last.calls[1] = "dri2_destroy_image"
    /\ surf[last.s].front = NULL

\* C15: every live image is the front image of exactly one live surface, no
\* two surfaces hold the same image, every image is freed exactly once (when
\* its surface is destroyed) and a destroyed surface keeps no image.
C15_ImageOwnedByOneSurface ==
    LET Live == {s \in 1..MaxSurfaces : surf[s].state = "live"}
        Gone == {s \in 1..MaxSurfaces : surf[s].state = "destroyed"}
        Holding == {s \in 1..MaxSurfaces : surf[s].front # NULL}
    IN
    /\ Holding \subseteq Live
    /\ \A s, t \in Holding : s # t => surf[s].front # surf[t].front
    /\ sys.live_images = {surf[s].front : s \in Holding}
    /\ sys.images_created =
          Cardinality({s \in 1..MaxSurfaces : surf[s].allocs = 1})
    /\ sys.images_freed =
          Cardinality({s \in Gone : surf[s].allocs = 1})
    /\ sys.images_created = Cardinality(sys.live_images) + sys.images_freed
    /\ \A s \in 1..MaxSurfaces : surf[s].allocs <= 1

C15_Witness ==
    /\ \E s, t \in 1..MaxSurfaces :
          /\ surf[s].state = "destroyed" /\ surf[s].allocs = 1
          /\ surf[t].state = "live" /\ surf[t].front # NULL
    /\ sys.images_freed = 1
    /\ Cardinality(sys.live_images) = 1

\* C19: get_capability returns 1 for the FP16 and RGBA-ordering capabilities
\* and 0 for every other query, whatever the display, the surfaces and the
\* call history are, and a get_capability call changes nothing but the
\* record of the call.
C19_GetCapabilityPure ==
    /\ [](last.op = "get_capability" =>
            /\ last.cap \in {"DRI_LOADER_CAP_FP16",
                             "DRI_LOADER_CAP_RGBA_ORDERING"}
                  => last.cap_result = 1
            /\ last.cap \notin {"DRI_LOADER_CAP_FP16",
                                "DRI_LOADER_CAP_RGBA_ORDERING"}
                  => last.cap_result = 0)
    /\ [][last'.op = "get_capability" =>
            UNCHANGED <<build, DeviceList, disp, dri2_dpy, pc, dev_list,
                        driver_loaded, ret, sys, hist, surf, buffers>>]_vars

C19_Witness ==
    /\ last.op = "get_capability"
    /\ last.cap = "DRI_LOADER_CAP_RGBA_ORDERING"
    /\ last.cap_result = 1
    /\ \E s \in 1..MaxSurfaces : surf[s].front # NULL
    /\ dri2_dpy.driver_name = "i915"

\* C20: a successful create_pbuffer_surface returns a surface with a drawable
\* and no image; the front image stays null and the allocator is not called
\* until a get_buffers call asks for the front buffer.
C20_LazyAllocationAfterCreate ==
    /\ (last.op = "create" /\ last.outcome = "ok") =>
          /\ last.result = "surface"
          /\ surf[last.s].state = "live"
          /\ surf[last.s].dri_drawable # NULL
          /\ surf[last.s].dri_drawable \in sys.live_drawables
          /\ surf[last.s].front = NULL
          /\ surf[last.s].alloc_calls = 0
    /\ \A s \in 1..MaxSurfaces :
          ~surf[s].front_requested =>
             /\ surf[s].front = NULL
             /\ surf[s].alloc_calls = 0

C20_Witness ==
    /\ last.op = "get_buffers" /\ last.mask = {"BACK"}
    /\ surf[last.s].state = "live"
    /\ surf[last.s].dri_drawable # NULL
    /\ ~surf[last.s].front_requested
    /\ surf[last.s].front = NULL
    /\ surf[last.s].alloc_calls = 0

\* C21: in the hardware probe the candidate's device identity is bound to
\* the display once its node is open and its driver name has been looked up,
\* before the driver is loaded, and rollback does not unbind it: through the
\* probe and after it returned false the display's device is the last
\* candidate that reached the bind step (the value before the probe if none
\* did).
C21_DeviceClaimedBeforeLoad ==
    /\ pc = "hw_screen" =>
          /\ hist.bound = dev_list
          /\ disp.Device = dev_list
          /\ hist.screen_attempt = NoName
    /\ pc \in {"hw_loop", "hw_prefer", "hw_driver", "hw_screen", "hw_retry",
               "hw_ret", "fallback"} =>
          /\ hist.bound # NULL => disp.Device = hist.bound
          /\ hist.bound = NULL => disp.Device = hist.pinned
    /\ hist.bound # NULL => hist.bound \in hist.opened

C21_Witness ==
    /\ pc = "fallback"
    /\ hist.hw_result = "false"
    /\ hist.pinned = NULL
    /\ hist.bound # NULL
    /\ hist.rejected >= 1
    /\ disp.Device = hist.bound

\* C22: the rollback calls close only on open handles and closes each open
\* handle once: close is never called on an unopened (-1) handle or on a
\* handle already closed, in every build, and the rollback leaves no handle
\* open.
C22_CloseOnlyOpenHandles ==
    /\ ~sys.bad_close
    /\ pc = "hw_loop" => sys.open_fds = {}

\* C23: when a candidate's screen has no graphics capability every screen
\* created for it is destroyed exactly once, both screen references of the
\* display are cleared, and the candidate is rolled back.
C23_NoGraphicsTeardown ==
    hist.graphics = "no" =>
      /\ pc = "hw_retry"
      /\ \A x \in hist.made :
            Cardinality({i \in 1..Len(hist.destroy_calls) :
                            hist.destroy_calls[i] = x}) = 1
      /\ sys.live_screens \cap hist.made = {}
      /\ dri2_dpy.dri_screen_render_gpu = NULL
      /\ dri2_dpy.dri_screen_display_gpu = NULL

\* C24: in a hardware probe with force_software a candidate whose driver
\* name is absent or is neither "vgem" nor "virtio_gpu" is rejected with no
\* driver name stored, no table chosen and no screen creation attempted, its
\* handle is closed by the rollback, and no hardware driver name is ever
\* loaded.
C24_ForceSoftwareRejectsHardwareDrivers ==
    disp.ForceSoftware =>
      /\ dri2_dpy.driver_name \in {NoName, "kms_swrast", "swrast", "zink"}
      /\ hist.screen_attempt \in {NoName, "kms_swrast", "swrast", "zink"}
      /\ pc = "hw_screen" =>
            /\ hist.resolved \in {"vgem", "virtio_gpu"}
            /\ dri2_dpy.driver_name = "kms_swrast"
      /\ (pc = "hw_retry" /\ hist.resolved \notin {"vgem", "virtio_gpu"}) =>
            /\ dri2_dpy.driver_name = NoName
            /\ hist.screen_attempt = NoName
            /\ hist.graphics = "none"
            /\ hist.made = {}
      /\ (pc = "hw_retry" /\ hist.resolved \notin {"vgem", "virtio_gpu"}
             /\ hist.rejected = 0) =>
            /\ hist.ext_assigns = 0
            /\ dri2_dpy.loader_extensions = "NULL"
      /\ pc = "hw_loop" => sys.open_fds = {}

C24_Witness ==
    /\ disp.ForceSoftware
    /\ pc = "hw_loop"
    /\ hist.rejected = 1
    /\ hist.bound = 1
    /\ hist.ext_assigns = 0
    /\ sys.open_fds = {}
    /\ sys.screens_created = 0

\* C25: the loader extension table in effect when screen creation is
\* attempted is the presentation (kopper) table if kopper was detected,
\* otherwise the software pbuffer table when probing in software mode
\* (force_software hardware probe or software probe), otherwise the hardware
\* image table; a table is in place whenever a screen creation was attempted.
\* The Metal presentation table is the software probe's presentation table
\* of the Apple/Metal build.
C25_TableVariantFromFlags ==
    LET software == hist.sw_attempt # NoName \/ disp.ForceSoftware
        ext == dri2_dpy.loader_extensions
    IN
    /\ hist.screen_attempt # NoName => ext # "NULL"
    /\ sys.screens_created > 0 => ext # "NULL"
    /\ ext # "NULL" =>
          /\ dri2_dpy.kopper =>
                ext \in {"kopper_loader_extensions",
                         "kopper_metal_loader_extensions"}
          /\ (~dri2_dpy.kopper /\ software) =>
                ext = "swrast_loader_extensions"
          /\ (~dri2_dpy.kopper /\ ~software) =>
                ext = "image_loader_extensions"
          /\ ext = "kopper_metal_loader_extensions" =>
                build.apple /\ build.metal /\ hist.sw_attempt # NoName

C25_Witness ==
    /\ disp.ForceSoftware
    /\ hist.hw_result = "true"
    /\ dri2_dpy.kopper
    /\ dri2_dpy.loader_extensions = "kopper_loader_extensions"
    /\ hist.screen_attempt = "kms_swrast"

\* C26: the hardware probe opens a node only of candidates that support
\* DRM, that are the pinned device when one was pinned, and that have the
\* selected node category; the node opened is the primary node when
\* force_software is set and the render node otherwise.
C26_OpensOnlyEligibleNodes ==
    LET wanted == IF disp.ForceSoftware THEN "PRIMARY" ELSE "RENDER" IN
    /\ hist.opened \subseteq 1..Len(DeviceList)
    /\ \A i \in hist.opened :
          /\ DeviceList[i].drm
          /\ disp.HasDeviceAttrib => i = hist.pinned
          /\ wanted \in DeviceList[i].nodes
    /\ hist.opened_nodes \subseteq {wanted}
    /\ hist.opened # {} => hist.opened_nodes = {wanted}
    /\ hist.open_calls = Cardinality(hist.opened)

C26_Witness ==
    /\ disp.ForceSoftware
    /\ Len(DeviceList) = 2
    /\ DeviceList[1].nodes = {"RENDER"}
    /\ DeviceList[2].nodes = {"PRIMARY", "RENDER"}
    /\ hist.examined = {1, 2}
    /\ hist.opened = {2}
    /\ hist.opened_nodes = {"PRIMARY"}

\* C29: a successful software probe leaves both device handles of the
\* display unopened (-1) and equal, no handle open, and the display's device
\* set to the software device, whatever the hardware probe before it did.
C29_SoftwareProbeHandleState ==
    hist.sw_result = "true" =>
      /\ dri2_dpy.fd_render_gpu = NOFD
      /\ dri2_dpy.fd_display_gpu = NOFD
      /\ dri2_dpy.fd_display_gpu = dri2_dpy.fd_render_gpu
      /\ sys.open_fds = {}
      /\ disp.Device = SWDEV

C29_Witness ==
    /\ hist.sw_result = "true"
    /\ hist.bound # NULL
    /\ hist.rejected >= 1
    /\ dri2_dpy.fd_render_gpu = NOFD
    /\ dri2_dpy.fd_display_gpu = NOFD
    /\ disp.Device = SWDEV

\* C27: a get_buffers call whose mask lacks the front bit allocates nothing,
\* leaves the surface's cached front image as it was and returns success
\* with an empty buffer set (mask 0, front and back null), also when a front
\* image is cached.
C27_NoFrontBitNoEffect ==
    (last.op = "get_buffers" /\ "FRONT" \notin last.mask) =>
      /\ ~last.alloc_called
      /\ ~last.alloc_ok
      /\ surf[last.s].front = last.front_before
      /\ last.front_before # NULL => last.front_before \in sys.live_images
      /\ buffers.ret = 1
      /\ buffers.image_mask = {}
      /\ buffers.front = NULL
      /\ buffers.back = NULL

C27_Witness ==
    /\ last.op = "get_buffers" /\ last.mask = {}
    /\ last.front_before # NULL
    /\ surf[last.s].front = last.front_before
    /\ buffers.ret = 1 /\ buffers.front = NULL

\* C28: a get_buffers step changes nothing of the display (device identity,
\* device handles, driver name, screens, tables, probe history) and nothing
\* of the other surfaces; of the called surface it keeps the drawable and the
\* liveness.
C28_GetBuffersLeavesDisplay ==
    [][last'.op = "get_buffers" =>
         /\ UNCHANGED <<build, DeviceList, disp, dri2_dpy, pc, dev_list,
                        driver_loaded, ret, hist>>
         /\ sys'.open_fds = sys.open_fds
         /\ sys'.bad_close = sys.bad_close
         /\ sys'.live_screens = sys.live_screens
         /\ sys'.screens_created = sys.screens_created
         /\ sys'.live_drawables = sys.live_drawables
         /\ sys'.drawables_created = sys.drawables_created
         /\ \A t \in 1..MaxSurfaces :
               t # last'.s => surf'[t] = surf[t]
         /\ surf'[last'.s].state = surf[last'.s].state
         /\ surf'[last'.s].dri_drawable = surf[last'.s].dri_drawable]_vars

C28_Witness ==
    /\ last.op = "get_buffers" /\ last.alloc_ok
    /\ \E t \in 1..MaxSurfaces :
          t # last.s /\ surf[t].state = "live" /\ surf[t].front # NULL
    /\ dri2_dpy.driver_name = "swrast"
    /\ dri2_dpy.dri_screen_render_gpu = 1
    /\ disp.Device = SWDEV

\* C30: the drawable size query of a surface with a native layer runs on the
\* main thread: inline without dispatch when the caller is the main thread,
\* otherwise dispatched synchronously, the caller returning and reading the
\* result only after the query has completed, and returning whenever it has
\* completed; without a layer nothing is dispatched and the stored size is
\* returned.
C30_SizeQueryOnMainContext ==
    /\ [](/\ mq.pc = "blocked" =>
                /\ mq.thread = "worker" /\ mq.layer # NULL /\ mq.dispatched
                /\ mq.out = NoSize
          /\ mq.ran_on \in {"none", "main"}
          /\ mq.done <=> mq.ran_on = "main"
          /\ (mq.pc = "returned" /\ mq.layer # NULL) =>
                /\ mq.done
                /\ mq.out = mq.size
                /\ mq.thread = "main" => ~mq.dispatched
                /\ mq.thread = "worker" => mq.dispatched
          /\ (mq.pc = "returned" /\ mq.layer = NULL) =>
                /\ ~mq.dispatched /\ ~mq.done
                /\ mq.out = mq.stored
          /\ (mq.dispatched /\ ~mq.done) =>
                /\ mq.pc = "blocked"
                /\ \E i \in 1..Len(mq.queue) : mq.queue[i] = "query")
    /\ [][(mq.pc = "blocked" /\ mq'.pc # "blocked") => mq.done]_vars
    /\ ((mq.pc = "blocked" /\ mq.done) ~> (mq.pc = "returned"))

C30_Witness ==
    /\ mq.pc = "returned"
    /\ mq.thread = "worker"
    /\ mq.layer # NULL
    /\ mq.dispatched
    /\ mq.ran_on = "main"
    /\ mq.out = mq.size
    /\ mq.calls = 2

\* C31: over any sequence of dlsym lookups through the interposer, nested
\* lookups during initialization included, dlopen of the EGL library is
\* called at most once and the environment variables are set at most once,
\* also after a failed load; a lookup returns the EGL resolver's result
\* exactly when the symbol starts with "gl", the resolver had been obtained
\* and it gave a non-null pointer, and otherwise returns what the real dlsym
\* gave for the caller's handle and symbol.
C31_InterposerInitOnceAndFallback ==
    /\ ip.dlopen_calls <= 1
    /\ ip.setenv_runs <= 1
    /\ ip.ret.valid =>
          LET r == ip.ret
              gl == /\ ~r.symbol.null
                    /\ Len(r.symbol.chars) >= 2
                    /\ SubSeq(r.symbol.chars, 1, 2) = <<"g", "l">>
              egl == gl /\ r.resolver # NULL /\ r.asked /\ r.proc # NULL
          IN /\ r.via \in {"egl", "real"}
             /\ r.via = "egl" <=> egl
             /\ r.via = "egl" => r.value = r.proc
             /\ r.via = "real" =>
                   /\ r.real_handle = r.handle
                   /\ r.real_symbol = r.symbol
                   /\ r.value \in RealDlsymResults

\* a lookup nested in the initialization has happened, the single load
\* succeeded, and the last lookup returned the resolver's pointer
C31_Witness ==
    /\ ip.stack = <<>>
    /\ ip.nested_in_init
    /\ ip.dlopen_calls = 1
    /\ ip.setenv_runs = 1
    /\ ip.lookups >= 2
    /\ ip.ret.valid
    /\ ip.ret.via = "egl"

====
